---- MODULE Spec2Model ----
(***************************************************************************)
(* state-dict-rs: a serde Serializer that flattens a value tree into a     *)
(* HashMap<String, f64> keyed by path strings (src/src/ser.rs).            *)
(*                                                                         *)
(* The serializer's handlers are recursive: serialize_element pushes an    *)
(* index, calls value.serialize(self) and pops when that call returns Ok.  *)
(* The model runs that recursion on an explicit control stack `ctl`: one   *)
(* step per handler entry, one per handler return, one per `?` that        *)
(* forwards an error.  The value's Serialize impl (serde's derive and the  *)
(* std impls) is the loop that calls begin / element / end on every        *)
(* compound.                                                               *)
(***************************************************************************)
EXTENDS Integers, Sequences, FiniteSets, TLC

(***************************************************************************)
(* Bound of the model: the number of elements, fields or entries of one    *)
(* compound value.                                                         *)
(***************************************************************************)
MaxLen == 2

(***************************************************************************)
(* f64 values.  NaN is a value of its own; every integer the model uses is *)
(* far below 2^53, where u64 -> f64 and i64 -> f64 are exact.              *)
(***************************************************************************)
F64(n) == [nan |-> FALSE, n |-> n]

NaN == [nan |-> TRUE, n |-> 0]

(***************************************************************************)
(* The value tree handed to to_hashmap, as serde's data model sees it.     *)
(* kind: the Serializer method the value's Serialize impl calls;           *)
(* n: the numeric payload (1 / 0 for a bool) or the variant_index;         *)
(* s: a text payload; keys: map keys (values) or field names (text         *)
(* values); kids: wrapped value, elements, field values or map values.     *)
(***************************************************************************)
Node(kind, n, s, keys, kids) ==
    [kind |-> kind, n |-> n, s |-> s, keys |-> keys, kids |-> kids]

Leaf(kind, n) == Node(kind, n, "", <<>>, <<>>)

Bool(b) == Leaf("bool", IF b THEN 1 ELSE 0)

Str(s) == Node("str", 0, s, <<>>, <<>>)

Wrap(kind, n, v) == Node(kind, n, "", <<>>, <<v>>)

Some(v) == Wrap("some", 0, v)

FieldNames == <<"a", "b", "c", "d">>

NamesFor(kids) == [i \in 1..Len(kids) |-> Str(FieldNames[i])]

Struct(kids) == Node("struct", 0, "", NamesFor(kids), kids)

SeqOf(kids) == Node("seq", 0, "", <<>>, kids)

(* The variants of the enum E of the tests: Unit = 0, Newtype = 1,         *)
(* Tuple = 2, Struct = 3.                                                  *)
UnitVariant == Leaf("unit_variant", 0)

NewtypeVariant(v) == Wrap("newtype_variant", 1, v)

TupleVariant(kids) == Node("tuple_variant", 2, "", <<>>, kids)

StructVariant(kids) == Node("struct_variant", 3, "", NamesFor(kids), kids)

SeqLikeKinds == {"seq", "tuple", "tuple_struct", "tuple_variant"}

RecordKinds == {"struct", "struct_variant"}

NumericKinds ==
    {"bool", "i8", "i16", "i32", "i64", "u8", "u16", "u32", "u64", "f32", "f64"}

TextKinds == {"char", "str", "bytes"}

UnitKinds == {"none", "unit", "unit_struct"}

VariantIndex(kind) ==
    CASE kind = "unit_variant" -> 0
      [] kind = "newtype_variant" -> 1
      [] kind = "tuple_variant" -> 2
      [] kind = "struct_variant" -> 3
      [] OTHER -> 0

(***************************************************************************)
(* The inputs the model draws from.  Every leaf kind occurs at top level   *)
(* and under every wrapper; compounds of up to MaxLen children are built   *)
(* over a few leaves and, one level up, over those leaves and a fixed set  *)
(* of inner compounds.                                                     *)
(***************************************************************************)
U1 == Leaf("u32", 1)

F2 == Leaf("f32", 2)

F3 == Leaf("f32", 3)

NumericLeaves ==
    {Bool(TRUE), Bool(FALSE), Leaf("i8", -1), Leaf("i16", -2), Leaf("i32", -3),
     Leaf("i64", -4), Leaf("u8", 5), Leaf("u16", 6), U1, Leaf("u64", 7), F2,
     Leaf("f64", 8)}

TextLeaves == {Leaf("char", 0), Str("s"), Leaf("bytes", 0)}

UnitLeaves == {Leaf("none", 0), Leaf("unit", 0), Leaf("unit_struct", 0)}

Leaves == NumericLeaves \cup TextLeaves \cup UnitLeaves \cup {UnitVariant}

SeqsUpTo(E) == UNION {[1..n -> E] : n \in 0..MaxLen}

Wrappers(E) ==
    {Wrap(k, VariantIndex(k), v) : k \in {"some", "newtype_struct", "newtype_variant"}, v \in E}

SeqLikes(E) ==
    {Node(k, VariantIndex(k), "", <<>>, ks) : k \in SeqLikeKinds, ks \in SeqsUpTo(E)}

Records(E) ==
    {Node(k, VariantIndex(k), "", NamesFor(ks), ks) : k \in RecordKinds, ks \in SeqsUpTo(E)}

MapOf(keys, kids) == Node("map", 0, "", keys, kids)

(* Maps whose i-th key is the text FieldNames[i].                          *)
TextMaps(E) == {MapOf(NamesFor(ks), ks) : ks \in SeqsUpTo(E)}

NewtypeStruct(v) == Wrap("newtype_struct", 0, v)

TextKeys ==
    {Str("k"), Str("a.b"), Str("[0]"), NewtypeStruct(Str("m")),
     NewtypeStruct(NewtypeStruct(Str("m")))}

NonTextKeys ==
    NumericLeaves \cup {Leaf("char", 0), Leaf("bytes", 0)} \cup UnitLeaves
        \cup {UnitVariant, Some(Str("k")), NewtypeVariant(Str("k")),
              NewtypeStruct(U1), NewtypeStruct(Some(Str("k"))),
              SeqOf(<<>>), Node("tuple", 0, "", <<>>, <<Str("k")>>),
              Node("tuple_struct", 0, "", <<>>, <<>>), TupleVariant(<<>>),
              MapOf(<<>>, <<>>), Struct(<<>>), StructVariant(<<>>)}

AllKeys == TextKeys \cup NonTextKeys

Elems0 == {U1, F2, Leaf("none", 0), Str("s")}

(* One-entry maps over every key, and maps of up to MaxLen entries over a  *)
(* text key, a wrapped text key and a numeric key.                         *)
KeyedMaps ==
    {MapOf(<<k>>, <<v>>) : k \in AllKeys, v \in Elems0}
        \cup {MapOf(ks, vs) : <<ks, vs>> \in
                 UNION {[1..n -> {Str("k"), NewtypeStruct(Str("m")), U1}]
                          \X [1..n -> {U1, Str("s")}] : n \in 0..MaxLen}}

Level1 ==
    Wrappers(Leaves) \cup SeqLikes(Elems0) \cup Records(Elems0) \cup KeyedMaps

Inner ==
    {Node(k, VariantIndex(k), "", <<>>, ks) :
        k \in SeqLikeKinds, ks \in {<<U1>>, <<U1, F2>>}}
        \cup {Struct(<<U1>>), StructVariant(<<U1>>), MapOf(<<Str("k")>>, <<U1>>),
              Some(U1), NewtypeVariant(U1), SeqOf(<<Str("s")>>),
              MapOf(<<U1>>, <<U1>>)}

Kids2 == {U1, Str("s")} \cup Inner

Level2 == SeqLikes(Kids2) \cup Records(Kids2) \cup TextMaps(Kids2)

(* Records whose fields are numeric scalars or sequences of them, as in    *)
(* test_struct.                                                            *)
ScalarSeqs == {SeqOf(ks) : ks \in SeqsUpTo({U1, F2})}

FlatRecords == {Struct(ks) : ks \in SeqsUpTo({U1, F3} \cup ScalarSeqs)}

TestRecord == Struct(<<U1, SeqOf(<<F2, F3>>)>>)

Inputs == Leaves \cup Level1 \cup Level2 \cup FlatRecords

(* The values test_nested embeds as fields of an outer record, and others. *)
NestArgs ==
    {Bool(TRUE), U1, F2, Leaf("i32", -3), Str("s")} \cup UnitLeaves
        \cup {UnitVariant, TestRecord, TupleVariant(<<U1, F2>>),
              SeqOf(<<SeqOf(<<U1>>), F2>>)}
        \cup Inner

(* A value v placed at a position: at top level, as a record field, as   *)
(* an element of a sequence or of a tuple variant, as a map value, as a    *)
(* variant's payload, inside another optional.                             *)
Contexts == {"top", "field", "element", "tuple", "value", "payload", "some"}

Place(c, v) ==
    CASE c = "top" -> v
      [] c = "field" -> Struct(<<U1, v>>)
      [] c = "element" -> SeqOf(<<v>>)
      [] c = "tuple" -> TupleVariant(<<F2, v>>)
      [] c = "value" -> MapOf(<<Str("k")>>, <<v>>)
      [] c = "payload" -> NewtypeVariant(v)
      [] c = "some" -> Some(v)

(***************************************************************************)
(* The calls one test makes: one call; a value, a second value and then    *)
(* the record that embeds both (test_nested); a value at a position and    *)
(* Some of that value at the same position.                                *)
(***************************************************************************)
Harness ==
    {<<v>> : v \in Inputs}
        \cup {<<v, Struct(<<v>>)>> : v \in NestArgs}
        \cup {<<v, w, Struct(<<v, w>>)>> : v \in NestArgs, w \in NestArgs}
        \cup {<<Place(c, v), Place(c, Some(v))>> : c \in Contexts, v \in NestArgs}

(***************************************************************************)
(* struct Serializer { counter, pos, output } and its methods.             *)
(***************************************************************************)
EmptyMap == [p \in {} |-> NaN]

Put(m, k, v) == [p \in DOMAIN m \cup {k} |-> IF p = k THEN v ELSE m[p]]

new(root) == [counter |-> 0, pos |-> <<root>>, output |-> EmptyMap]

(* is_root, were it to test for the root marker alone.                     *)
is_root_marker_only(s) == Len(s.pos) = 1

is_root(s) == Len(s.pos) = 0

(* push_key, were it to extend the bottom of the stack, not its top.       *)
push_key_from_bottom(s, key) ==
    LET len == Len(s.pos)
        new_pos == IF len = 0 THEN key ELSE s.pos[1] \o "." \o key
    IN  [s EXCEPT !.pos = Append(@, new_pos)]

push_key(s, key) ==
    LET len == Len(s.pos)
        new_pos == IF len = 0 THEN key ELSE s.pos[len] \o "." \o key
    IN  [s EXCEPT !.pos = Append(@, new_pos)]

(* format!("[{}]", i)                                                      *)
FormatIndex(i) == "[" \o ToString(i) \o "]"

(* push_index, were it to compute the path and not push it.                *)
push_index_lost(s, i) == s

push_index(s, i) ==
    LET len == Len(s.pos)
        new_pos == IF len = 0 THEN FormatIndex(i) ELSE s.pos[len] \o FormatIndex(i)
    IN  [s EXCEPT !.pos = Append(@, new_pos)]

(* pop, were it to remove two entries.                                     *)
pop_twice(s) ==
    IF Len(s.pos) <= 2
      THEN [s EXCEPT !.pos = <<>>]
      ELSE [s EXCEPT !.pos = SubSeq(@, 1, Len(@) - 2)]

(* pop, were it to leave the stack alone.                                  *)
pop_nothing(s) == s

(* Vec::pop on an empty vector returns None and changes nothing.           *)
pop(s) ==
    IF Len(s.pos) = 0 THEN s ELSE [s EXCEPT !.pos = SubSeq(@, 1, Len(@) - 1)]

(* assert_ne!(self.pos.len(), 0) panics on an empty stack.                 *)
insert_panics(s) == Len(s.pos) = 0

(* insert, were it to keep the value a path already holds.                 *)
insert_if_absent(s, value) ==
    IF s.pos[Len(s.pos)] \in DOMAIN s.output
      THEN s
      ELSE [s EXCEPT !.output = Put(@, s.pos[Len(s.pos)], value)]

insert(s, value) == [s EXCEPT !.output = Put(@, s.pos[Len(s.pos)], value)]

(* `self.counter as i32`: a usize below 2^31 keeps its value.              *)
AsI32(c) == IF c <= 2147483647 THEN c ELSE c - 2147483647 - 2147483647 - 2

(***************************************************************************)
(* The handlers of `impl ser::Serializer for &mut Serializer` that do not  *)
(* recurse.  Each returns the serializer afterwards and its Result.        *)
(***************************************************************************)
Ok(s) == [s |-> s, res |-> "Ok"]

Err(s, e) == [s |-> s, res |-> e]

serialize_f64(s, v) ==
    IF insert_panics(s) THEN Err(s, "Panic") ELSE Ok(insert(s, v))

serialize_bool(s, v) == serialize_f64(s, IF v THEN F64(1) ELSE F64(0))

(* v as f64                                                                *)
serialize_i64(s, v) == serialize_f64(s, F64(v))

serialize_i8(s, v) == serialize_i64(s, v)

serialize_i16(s, v) == serialize_i64(s, v)

serialize_i32(s, v) == serialize_i64(s, v)

serialize_u64(s, v) == serialize_f64(s, F64(v))

serialize_u8(s, v) == serialize_u64(s, v)

serialize_u16(s, v) == serialize_u64(s, v)

serialize_u32(s, v) == serialize_u64(s, v)

(* f64::from(v)                                                            *)
serialize_f32(s, v) == serialize_f64(s, F64(v))

serialize_char(s) == Err(s, "Unsupported")

(* serialize_str, were it to skip the text and report success.            *)
serialize_str_skipped(s) == Ok(s)

serialize_str(s) == Err(s, "Unsupported")

serialize_bytes(s) == Err(s, "Unsupported")

serialize_unit(s) == serialize_f64(s, NaN)

(* serialize_none, were it to store 0 for "no data".                       *)
serialize_none_as_zero(s) == serialize_f64(s, F64(0))

serialize_none(s) == serialize_unit(s)

serialize_unit_struct(s) == serialize_unit(s)

serialize_unit_variant(s, variant_index) == serialize_u32(s, variant_index)

(* serialize_seq, serialize_tuple, serialize_tuple_struct: Ok(self).       *)
serialize_seq(s) == Ok(s)

serialize_tuple(s) == serialize_seq(s)

serialize_tuple_struct(s) == serialize_seq(s)

(* serialize_tuple_variant, were it to drop the discriminant.               *)
serialize_tuple_variant_untagged(s, variant_index) == serialize_seq(s)

serialize_tuple_variant(s, variant_index) == serialize_u32(s, variant_index)

serialize_map(s) == Ok(s)

serialize_struct(s) == Ok(s)

serialize_struct_variant(s, variant_index) ==
    serialize_u32(IF is_root(s) THEN push_key(s, "_") ELSE s, variant_index)

(* serialize_newtype_variant up to its recursive call:                     *)
(* self.serialize_u32(variant_index)?; self.push_index(0);                 *)
serialize_newtype_variant(s, variant_index) ==
    LET r == serialize_u32(s, variant_index)
    IN  IF r.res = "Ok" THEN Ok(push_index(r.s, 0)) ELSE r

(***************************************************************************)
(* The compound impls.  serialize_element / serialize_field up to the      *)
(* recursive call, and end.                                                *)
(***************************************************************************)
SerializeSeq_serialize_element(s) ==
    [push_index(s, AsI32(s.counter)) EXCEPT !.counter = @ + 1]

(* SerializeSeq::end, were it to keep the counter.                         *)
SerializeSeq_end_keeps_counter(s) == s

SerializeSeq_end(s) == [s EXCEPT !.counter = 0]

SerializeTuple_serialize_element(s) ==
    [push_index(s, AsI32(s.counter)) EXCEPT !.counter = @ + 1]

SerializeTuple_end(s) == [s EXCEPT !.counter = 0]

SerializeTupleStruct_serialize_field(s) ==
    [push_index(s, AsI32(s.counter)) EXCEPT !.counter = @ + 1]

SerializeTupleStruct_end(s) == [s EXCEPT !.counter = 0]

SerializeTupleVariant_serialize_field(s) ==
    [push_index(s, AsI32(s.counter)) EXCEPT !.counter = @ + 1]

SerializeTupleVariant_end(s) == [s EXCEPT !.counter = 0]

SerializeStruct_serialize_field(s, key) == push_key(s, key)

SerializeStructVariant_serialize_field(s, key) == push_key(s, key)

(***************************************************************************)
(* StringExtractor: the serializer a map key is given to.  Ok carries the  *)
(* extracted String in `key`.                                              *)
(***************************************************************************)
RECURSIVE StringExtractor(_)
StringExtractor(value) ==
    CASE value.kind = "str" -> [res |-> "Ok", key |-> value.s]
      [] value.kind = "newtype_struct" -> StringExtractor(value.kids[1])
      [] value.kind \in NumericKinds \cup {"char", "bytes"} ->
            [res |-> "KeyNotString", key |-> ""]
      [] value.kind \in {"none", "some", "unit", "unit_struct"} ->
            [res |-> "KeyNotString", key |-> ""]
      [] value.kind \in {"unit_variant", "newtype_variant"} ->
            [res |-> "KeyNotString", key |-> ""]
      [] value.kind \in SeqLikeKinds \cup {"map"} \cup RecordKinds ->
            [res |-> "KeyNotString", key |-> ""]

(* serialize_key, were it to ignore the extractor's verdict.               *)
SerializeMap_serialize_key_unchecked(s, key) ==
    Ok(push_key(s, StringExtractor(key).key))

(* SerializeMap::serialize_key                                             *)
SerializeMap_serialize_key(s, key) ==
    LET k == StringExtractor(key)
    IN  IF k.res = "Ok" THEN Ok(push_key(s, k.key)) ELSE Err(s, k.res)

(***************************************************************************)
(* State.                                                                  *)
(*   inputs      the values the test passes to to_hashmap, in order        *)
(*   cur         the index of the current (or next) call                   *)
(*   pc          "idle" between calls, "running" inside to_hashmap,        *)
(*               "panicked" after a failed assertion                       *)
(*   serializer  the Serializer of the current call                        *)
(*   ctl         the call stack of the traversal, innermost frame last     *)
(*   err         "None", or the Err a handler returned, on its way up      *)
(*   results     what the finished calls returned                          *)
(***************************************************************************)
VARIABLES inputs, cur, pc, serializer, ctl, err, results

vars == <<inputs, cur, pc, serializer, ctl, err, results>>

NoValue == Leaf("", 0)

(* value.serialize(serializer) about to run.                               *)
Call(v) == [f |-> "call", h |-> "", v |-> v, i |-> 0, entry |-> <<>>, base |-> <<>>]

(* The Serialize impl of compound v between two calls of the serializer;   *)
(* i is the next child.  For a map h tells whether serialize_key or        *)
(* serialize_value is next, and entry is the stack serialize_key found.    *)
Loop(v, i, h, entry) ==
    [f |-> "loop", h |-> h, v |-> v, i |-> i, entry |-> entry, base |-> <<>>]

(* Handler h waiting for its recursive value.serialize(self).  entry is    *)
(* the path stack the handler found when it was entered; base is the stack *)
(* before the descent's push (the same, but for serialize_value, whose     *)
(* push serialize_key made).                                               *)
Ret(h, entry, base) ==
    [f |-> "ret", h |-> h, v |-> NoValue, i |-> 0, entry |-> entry, base |-> base]

Front(q) == SubSeq(q, 1, Len(q) - 1)

Top == ctl[Len(ctl)]

Errors == {"Unsupported", "KeyNotString"}

Init ==
    /\ inputs \in Harness
    /\ cur = 1
    /\ pc = "idle"
    /\ serializer = new("$")
    /\ ctl = <<>>
    /\ err = "None"
    /\ results = <<>>

(* to_hashmap, up to value.serialize(&mut serializer).                     *)
ToHashmap ==
    /\ pc = "idle"
    /\ cur <= Len(inputs)
    /\ pc' = "running"
    /\ serializer' = new("$")
    /\ ctl' = <<Call(inputs[cur])>>
    /\ err' = "None"
    /\ UNCHANGED <<inputs, cur, results>>

Calling(kinds) ==
    /\ pc = "running"
    /\ err = "None"
    /\ ctl # <<>>
    /\ Top.f = "call"
    /\ Top.v.kind \in kinds

Looping(kinds) ==
    /\ pc = "running"
    /\ err = "None"
    /\ ctl # <<>>
    /\ Top.f = "loop"
    /\ Top.v.kind \in kinds

Returning(handlers) ==
    /\ pc = "running"
    /\ err = "None"
    /\ ctl # <<>>
    /\ Top.f = "ret"
    /\ Top.h \in handlers

(* The handler called by the innermost frame returned r: on Ok the         *)
(* traversal goes on with `next`, on Err the call returns the error, and a *)
(* failed assertion ends the thread.                                       *)
Finish(r, next) ==
    /\ serializer' = r.s
    /\ IF r.res = "Ok"
         THEN /\ ctl' = next
              /\ UNCHANGED <<err, pc>>
         ELSE IF r.res = "Panic"
                THEN /\ pc' = "panicked"
                     /\ err' = "Panic"
                     /\ UNCHANGED ctl
                ELSE /\ err' = r.res
                     /\ ctl' = Front(ctl)
                     /\ UNCHANGED pc
    /\ UNCHANGED <<inputs, cur, results>>

NumericHandler(s, v) ==
    CASE v.kind = "bool" -> serialize_bool(s, v.n = 1)
      [] v.kind = "i8" -> serialize_i8(s, v.n)
      [] v.kind = "i16" -> serialize_i16(s, v.n)
      [] v.kind = "i32" -> serialize_i32(s, v.n)
      [] v.kind = "i64" -> serialize_i64(s, v.n)
      [] v.kind = "u8" -> serialize_u8(s, v.n)
      [] v.kind = "u16" -> serialize_u16(s, v.n)
      [] v.kind = "u32" -> serialize_u32(s, v.n)
      [] v.kind = "u64" -> serialize_u64(s, v.n)
      [] v.kind = "f32" -> serialize_f32(s, v.n)
      [] v.kind = "f64" -> serialize_f64(s, F64(v.n))

SerializeNumeric ==
    /\ Calling(NumericKinds)
    /\ Finish(NumericHandler(serializer, Top.v), Front(ctl))

TextHandler(s, v) ==
    CASE v.kind = "char" -> serialize_char(s)
      [] v.kind = "str" -> serialize_str(s)
      [] v.kind = "bytes" -> serialize_bytes(s)

SerializeText ==
    /\ Calling(TextKinds)
    /\ Finish(TextHandler(serializer, Top.v), Front(ctl))

UnitHandler(s, v) ==
    CASE v.kind = "none" -> serialize_none(s)
      [] v.kind = "unit" -> serialize_unit(s)
      [] v.kind = "unit_struct" -> serialize_unit_struct(s)

SerializeUnit ==
    /\ Calling(UnitKinds)
    /\ Finish(UnitHandler(serializer, Top.v), Front(ctl))

SerializeUnitVariant ==
    /\ Calling({"unit_variant"})
    /\ Finish(serialize_unit_variant(serializer, Top.v.n), Front(ctl))

(* serialize_some: value.serialize(self)                                   *)
SerializeSome ==
    /\ Calling({"some"})
    /\ ctl' = Append(Front(ctl), Call(Top.v.kids[1]))
    /\ UNCHANGED <<inputs, cur, pc, serializer, err, results>>

(* serialize_newtype_struct: value.serialize(self)                         *)
SerializeNewtypeStruct ==
    /\ Calling({"newtype_struct"})
    /\ ctl' = Append(Front(ctl), Call(Top.v.kids[1]))
    /\ UNCHANGED <<inputs, cur, pc, serializer, err, results>>

SerializeNewtypeVariant ==
    /\ Calling({"newtype_variant"})
    /\ Finish(serialize_newtype_variant(serializer, Top.v.n),
              Front(ctl) \o <<Ret("serialize_newtype_variant", serializer.pos,
                                  serializer.pos),
                              Call(Top.v.kids[1])>>)

(* The tail of a handler whose recursive call returned Ok:                 *)
(* self.pop(); Ok(())                                                      *)
HandlerTail ==
    /\ serializer' = pop(serializer)
    /\ ctl' = Front(ctl)
    /\ UNCHANGED <<inputs, cur, pc, err, results>>

NewtypeVariantReturn ==
    /\ Returning({"serialize_newtype_variant"})
    /\ HandlerTail

BeginHandler(s, v) ==
    CASE v.kind = "seq" -> serialize_seq(s)
      [] v.kind = "tuple" -> serialize_tuple(s)
      [] v.kind = "tuple_struct" -> serialize_tuple_struct(s)
      [] v.kind = "tuple_variant" -> serialize_tuple_variant(s, v.n)
      [] v.kind = "map" -> serialize_map(s)
      [] v.kind = "struct" -> serialize_struct(s)
      [] v.kind = "struct_variant" -> serialize_struct_variant(s, v.n)

Begin == Finish(BeginHandler(serializer, Top.v),
                Append(Front(ctl), Loop(Top.v, 1, "key", <<>>)))

SerializeSeq ==
    /\ Calling({"seq", "tuple", "tuple_struct"})
    /\ Begin

SerializeTupleVariant ==
    /\ Calling({"tuple_variant"})
    /\ Begin

SerializeMap ==
    /\ Calling({"map"})
    /\ Begin

SerializeStruct ==
    /\ Calling({"struct"})
    /\ Begin

SerializeStructVariant ==
    /\ Calling({"struct_variant"})
    /\ Begin

ElementHandler(s, v) ==
    CASE v.kind = "seq" -> SerializeSeq_serialize_element(s)
      [] v.kind = "tuple" -> SerializeTuple_serialize_element(s)
      [] v.kind = "tuple_struct" -> SerializeTupleStruct_serialize_field(s)
      [] v.kind = "tuple_variant" -> SerializeTupleVariant_serialize_field(s)

(* The handler entered for child i of compound v: push, then recurse.      *)
Descend(h, s) ==
    /\ serializer' = s
    /\ ctl' = Front(ctl) \o <<Loop(Top.v, Top.i + 1, "key", <<>>),
                              Ret(h, serializer.pos, serializer.pos),
                              Call(Top.v.kids[Top.i])>>
    /\ UNCHANGED <<inputs, cur, pc, err, results>>

SerializeElement ==
    /\ Looping(SeqLikeKinds)
    /\ Top.i <= Len(Top.v.kids)
    /\ Descend("serialize_element", ElementHandler(serializer, Top.v))

ElementReturn ==
    /\ Returning({"serialize_element"})
    /\ HandlerTail

EndHandler(s, v) ==
    CASE v.kind = "seq" -> SerializeSeq_end(s)
      [] v.kind = "tuple" -> SerializeTuple_end(s)
      [] v.kind = "tuple_struct" -> SerializeTupleStruct_end(s)
      [] v.kind = "tuple_variant" -> SerializeTupleVariant_end(s)
      [] v.kind \in {"map", "struct", "struct_variant"} -> s

End ==
    /\ Top.i > Len(Top.v.kids)
    /\ serializer' = EndHandler(serializer, Top.v)
    /\ ctl' = Front(ctl)
    /\ UNCHANGED <<inputs, cur, pc, err, results>>

SeqEnd ==
    /\ Looping(SeqLikeKinds)
    /\ End

FieldHandler(s, v, key) ==
    CASE v.kind = "struct" -> SerializeStruct_serialize_field(s, key)
      [] v.kind = "struct_variant" -> SerializeStructVariant_serialize_field(s, key)

SerializeField ==
    /\ Looping(RecordKinds)
    /\ Top.i <= Len(Top.v.kids)
    /\ Descend("serialize_field", FieldHandler(serializer, Top.v, Top.v.keys[Top.i].s))

FieldReturn ==
    /\ Returning({"serialize_field"})
    /\ HandlerTail

StructEnd ==
    /\ Looping(RecordKinds)
    /\ End

(* SerializeMap::serialize_key, called by serialize_entry.                 *)
SerializeKey ==
    /\ Looping({"map"})
    /\ Top.h = "key"
    /\ Top.i <= Len(Top.v.kids)
    /\ LET r == SerializeMap_serialize_key(serializer, Top.v.keys[Top.i])
       IN  /\ serializer' = r.s
           /\ IF r.res = "Ok"
                THEN /\ ctl' = Append(Front(ctl),
                                      Loop(Top.v, Top.i, "value", serializer.pos))
                     /\ UNCHANGED err
                ELSE /\ err' = r.res
                     /\ UNCHANGED ctl
    /\ UNCHANGED <<inputs, cur, pc, results>>

(* SerializeMap::serialize_value up to value.serialize(&mut **self).       *)
SerializeValue ==
    /\ Looping({"map"})
    /\ Top.h = "value"
    /\ ctl' = Front(ctl) \o <<Loop(Top.v, Top.i + 1, "key", <<>>),
                              Ret("serialize_value", serializer.pos, Top.entry),
                              Call(Top.v.kids[Top.i])>>
    /\ UNCHANGED <<inputs, cur, pc, serializer, err, results>>

ValueReturn ==
    /\ Returning({"serialize_value"})
    /\ HandlerTail

MapEnd ==
    /\ Looping({"map"})
    /\ Top.h = "key"
    /\ End

(* `?`, were the frame to drop the error and go on.                        *)
PropagateDropped ==
    /\ pc = "running"
    /\ err \in Errors
    /\ ctl # <<>>
    /\ ctl' = Front(ctl)
    /\ err' = "None"
    /\ UNCHANGED <<inputs, cur, pc, serializer, results>>

(* `?`: the innermost frame returns the error it was given.                *)
Propagate ==
    /\ pc = "running"
    /\ err \in Errors
    /\ ctl # <<>>
    /\ ctl' = Front(ctl)
    /\ UNCHANGED <<inputs, cur, pc, serializer, err, results>>

OkResult(map) == [res |-> "Ok", map |-> map]

ErrResult(e) == [res |-> e, map |-> EmptyMap]

(* to_hashmap returns: value.serialize(&mut serializer)?;                  *)
(* Ok(serializer.output)                                                   *)
Return ==
    /\ pc = "running"
    /\ ctl = <<>>
    /\ results' = Append(results, IF err = "None"
                                    THEN OkResult(serializer.output)
                                    ELSE ErrResult(err))
    /\ pc' = "idle"
    /\ cur' = cur + 1
    /\ UNCHANGED <<inputs, serializer, ctl, err>>

Next ==
    \/ ToHashmap
    \/ SerializeNumeric
    \/ SerializeText
    \/ SerializeUnit
    \/ SerializeUnitVariant
    \/ SerializeSome
    \/ SerializeNewtypeStruct
    \/ SerializeNewtypeVariant
    \/ NewtypeVariantReturn
    \/ SerializeSeq
    \/ SerializeTupleVariant
    \/ SerializeMap
    \/ SerializeStruct
    \/ SerializeStructVariant
    \/ SerializeElement
    \/ ElementReturn
    \/ SeqEnd
    \/ SerializeField
    \/ FieldReturn
    \/ StructEnd
    \/ SerializeKey
    \/ SerializeValue
    \/ ValueReturn
    \/ MapEnd
    \/ Propagate
    \/ Return

Spec == Init /\ [][Next]_vars

(***************************************************************************)
(* Vocabulary of the properties.                                           *)
(***************************************************************************)
TopPath(s) == s.pos[Len(s.pos)]

Range(f) == {f[x] : x \in DOMAIN f}

Finished == 1..Len(results)

(* The f64 a numeric scalar is stored as.                                  *)
ScalarValue(v) == F64(v.n)

AllNumeric(kids) == \A i \in 1..Len(kids) : kids[i].kind \in NumericKinds

(* The map that holds `here` at path `root` and child i of kids at         *)
(* path[i].                                                                *)
MapAt(root, here, path, kids) ==
    [p \in {root} \cup Range(path) |->
        IF p = root THEN here
        ELSE ScalarValue(kids[CHOOSE i \in DOMAIN path : path[i] = p])]

IndexPaths(root, kids) == [i \in 1..Len(kids) |-> root \o "[" \o ToString(i - 1) \o "]"]

FieldPaths(root, v) == [i \in 1..Len(v.kids) |-> root \o "." \o v.keys[i].s]

(***************************************************************************)
(* C1: every element of a sequence, tuple, tuple struct or tuple variant,  *)
(* at any nesting depth, is recursed into at the compound's own path       *)
(* followed by "[i]", i being the element's 0-based position in that       *)
(* compound.                                                               *)
(***************************************************************************)
C1_ElementAtOwnIndex ==
    [][SerializeElement =>
          TopPath(serializer') = TopPath(serializer) \o "[" \o ToString(Top.i - 1) \o "]"]_vars

(***************************************************************************)
(* C2 as claimed: a struct variant passed to to_hashmap itself has its     *)
(* discriminant written at "$._" and not at "$".                           *)
(***************************************************************************)
C2_DiscriminantAtUnderscore ==
    \A k \in Finished :
        (inputs[k].kind = "struct_variant" /\ results[k].res = "Ok") =>
            /\ "$._" \in DOMAIN results[k].map
            /\ "$" \notin DOMAIN results[k].map

(***************************************************************************)
(* C2 as amended: the path stack is seeded with "$", so is_root, which     *)
(* tests for an empty stack, is false throughout a call; a struct variant  *)
(* passed to to_hashmap itself pushes no "_" and has its discriminant      *)
(* written at "$", and nothing at "$._".                                   *)
(***************************************************************************)
C2_DiscriminantAtRoot ==
    /\ pc = "running" => ~is_root(serializer)
    /\ \A k \in Finished :
          (inputs[k].kind = "struct_variant" /\ results[k].res = "Ok") =>
              /\ "$" \in DOMAIN results[k].map
              /\ results[k].map["$"] = F64(inputs[k].n)
              /\ "$._" \notin DOMAIN results[k].map

C2_Witness ==
    \E k \in Finished :
        /\ inputs[k].kind = "struct_variant"
        /\ Len(inputs[k].kids) >= 1
        /\ results[k].res = "Ok"

(***************************************************************************)
(* C3: an enum value passed to to_hashmap itself, with discriminant d and  *)
(* numeric scalar payloads, yields exactly: {"$": d} for a unit variant;   *)
(* {"$": d, "$[0]": v} for a newtype variant; {"$": d} and "$[i]" = field  *)
(* i for a tuple variant; {"$": d} and "$.<field>" = value for a struct    *)
(* variant.                                                                *)
(***************************************************************************)
C3_Expected(v) ==
    IF v.kind = "struct_variant"
      THEN MapAt("$", F64(v.n), FieldPaths("$", v), v.kids)
      ELSE MapAt("$", F64(v.n), IndexPaths("$", v.kids), v.kids)

C3_EnumAtTopLevel ==
    \A k \in Finished :
        ( /\ inputs[k].kind \in
                {"unit_variant", "newtype_variant", "tuple_variant", "struct_variant"}
          /\ AllNumeric(inputs[k].kids) ) =>
            results[k] = OkResult(C3_Expected(inputs[k]))

C3_Witness ==
    \E k \in Finished :
        /\ inputs[k].kind = "tuple_variant"
        /\ Len(inputs[k].kids) = 2
        /\ AllNumeric(inputs[k].kids)
        /\ results[k].res = "Ok"
        /\ Cardinality(DOMAIN results[k].map) = 3

(***************************************************************************)
(* A handler that recursed returns, with Ok or with the error it was       *)
(* given.                                                                  *)
(***************************************************************************)
HandlerReturns ==
    /\ pc = "running"
    /\ ctl # <<>>
    /\ Top.f = "ret"
    /\ ctl' = Front(ctl)

IsPrefix(p, q) == Len(p) <= Len(q) /\ SubSeq(q, 1, Len(p)) = p

(***************************************************************************)
(* C4 as claimed: when a handler that descended into a field, an element,  *)
(* a map value or a variant payload returns, with Ok or with Err, the path *)
(* stack is what it was when the handler was entered.                      *)
(***************************************************************************)
C4_BalancedOnEveryReturn ==
    [][HandlerReturns => serializer'.pos = Top.entry]_vars

(***************************************************************************)
(* C4 as amended: every descent makes exactly one push; when the nested    *)
(* value returns Ok the handler makes exactly one pop and the stack is     *)
(* what it was before the push.  For a map entry the push is made by       *)
(* serialize_key and the pop by serialize_value, so the stack is restored  *)
(* after the pair, not after each of the two handlers.  When the nested    *)
(* value returns Err the handler returns at once without popping: the      *)
(* pushed segment stays on the stack.                                      *)
(***************************************************************************)
C4_BalancedOnOk ==
    [][/\ (SerializeElement \/ SerializeField) =>
             /\ Len(serializer'.pos) = Len(serializer.pos) + 1
             /\ IsPrefix(serializer.pos, serializer'.pos)
       /\ (SerializeNewtypeVariant \/ SerializeKey) /\ err' = "None" =>
             /\ Len(serializer'.pos) = Len(serializer.pos) + 1
             /\ IsPrefix(serializer.pos, serializer'.pos)
       /\ SerializeValue => serializer'.pos = serializer.pos
       /\ HandlerReturns /\ err = "None" =>
             /\ serializer'.pos = Top.base
             /\ Len(serializer'.pos) = Len(serializer.pos) - 1
       /\ HandlerReturns /\ err \in Errors =>
             /\ serializer'.pos = serializer.pos
             /\ Len(serializer.pos) > Len(Top.base)
             /\ IsPrefix(Top.base, serializer.pos)]_vars

(* A first call returned Ok for a compound, and in a later call an error   *)
(* has travelled all the way up, leaving pushed segments on the stack.     *)
C4_Witness ==
    /\ Len(results) >= 1
    /\ results[1].res = "Ok"
    /\ Len(inputs[1].kids) >= 1
    /\ pc = "running"
    /\ err \in Errors
    /\ ctl = <<>>
    /\ Len(serializer.pos) > 1

RECURSIVE HasTextLeaf(_)
HasTextLeaf(v) ==
    \/ v.kind \in TextKinds
    \/ \E i \in 1..Len(v.kids) : HasTextLeaf(v.kids[i])

RECURSIVE IsTextKey(_)
IsTextKey(key) ==
    \/ key.kind = "str"
    \/ key.kind = "newtype_struct" /\ IsTextKey(key.kids[1])

RECURSIVE HasNonTextKey(_)
HasNonTextKey(v) ==
    \/ v.kind = "map" /\ \E i \in 1..Len(v.keys) : ~IsTextKey(v.keys[i])
    \/ \E i \in 1..Len(v.kids) : HasNonTextKey(v.kids[i])

(***************************************************************************)
(* C5 as claimed: an input with a text, character or bytes leaf anywhere   *)
(* among its values makes to_hashmap return Unsupported, whatever precedes *)
(* the leaf.                                                               *)
(***************************************************************************)
C5_AlwaysUnsupported ==
    \A k \in Finished :
        HasTextLeaf(inputs[k]) => results[k].res = "Unsupported"

(***************************************************************************)
(* C5 as amended: an input with a text, character or bytes leaf among its  *)
(* values (a map key is not such a leaf) never succeeds; it returns        *)
(* Unsupported unless some map of the input has a key that does not        *)
(* resolve to text, in which case it returns Unsupported or KeyNotString.  *)
(***************************************************************************)
C5_TextLeafFails ==
    \A k \in Finished :
        HasTextLeaf(inputs[k]) =>
            /\ results[k].res \in Errors
            /\ results[k].map = EmptyMap
            /\ ~HasNonTextKey(inputs[k]) => results[k].res = "Unsupported"

(* The leaf comes second, after a numeric leaf that was written.           *)
C5_Witness ==
    \E k \in Finished :
        /\ Len(inputs[k].kids) = 2
        /\ inputs[k].kids[1].kind \in NumericKinds
        /\ inputs[k].kids[2].kind \in TextKinds
        /\ results[k].res = "Unsupported"
        /\ serializer.output # EmptyMap

RECURSIVE GoodTree(_)
GoodTree(v) ==
    \/ v.kind \in NumericKinds \cup UnitKinds \cup {"unit_variant"}
    \/ /\ v.kind \in {"some", "newtype_variant"} \cup SeqLikeKinds \cup RecordKinds
       /\ \A i \in 1..Len(v.kids) : GoodTree(v.kids[i])

(***************************************************************************)
(* C6: an input whose leaves are booleans, integers, floats, optionals or  *)
(* units, under any nesting of records, sequences, tuples and enum         *)
(* variants, never makes to_hashmap return an error, and the assertion of  *)
(* insert (a non-empty path stack) never fails.                            *)
(***************************************************************************)
C6_NumericNeverFails ==
    /\ \A k \in Finished : GoodTree(inputs[k]) => results[k].res = "Ok"
    /\ (pc # "idle" /\ GoodTree(inputs[cur])) =>
          /\ pc = "running"
          /\ err = "None"
          /\ ~insert_panics(serializer)

C6_Witness ==
    \E k \in Finished :
        /\ GoodTree(inputs[k])
        /\ \E i \in 1..Len(inputs[k].kids) : Len(inputs[k].kids[i].kids) >= 1
        /\ results[k].res = "Ok"
        /\ NaN \in Range(results[k].map)

(* The text a text key resolves to.                                        *)
RECURSIVE KeyText(_)
KeyText(key) == IF key.kind = "str" THEN key.s ELSE KeyText(key.kids[1])

(* The function whose graph is the set of <<path, value>> pairs.           *)
FromEntries(entries) ==
    [p \in {e[1] : e \in entries} |-> (CHOOSE e \in entries : e[1] = p)[2]]

(* A map of numeric values under text keys: the last entry of a key wins.  *)
C7_Entries(v) ==
    {<<"$." \o KeyText(v.keys[i]), ScalarValue(v.kids[i])>> :
        i \in {j \in 1..Len(v.kids) :
                 \A l \in j + 1..Len(v.kids) : KeyText(v.keys[l]) # KeyText(v.keys[j])}}

(***************************************************************************)
(* C7: a map key that dispatches as text, directly or inside newtype       *)
(* structs, makes the entry's value be recursed into at the current path   *)
(* followed by "." and the key text as it is; a key of any other kind      *)
(* makes to_hashmap fail with KeyNotString, and resolving it writes        *)
(* nothing to the output map and pushes or pops nothing.                   *)
(***************************************************************************)
C7_MapKeys ==
    /\ [](\A k \in Finished :
            (inputs[k].kind = "map" /\ AllNumeric(inputs[k].kids)) =>
                IF \A i \in 1..Len(inputs[k].keys) : IsTextKey(inputs[k].keys[i])
                  THEN results[k] = OkResult(FromEntries(C7_Entries(inputs[k])))
                  ELSE results[k] = ErrResult("KeyNotString"))
    /\ [][/\ SerializeKey /\ IsTextKey(Top.v.keys[Top.i]) =>
                /\ err' = "None"
                /\ serializer' =
                      [serializer EXCEPT !.pos =
                          Append(@, TopPath(serializer) \o "." \o KeyText(Top.v.keys[Top.i]))]
          /\ SerializeValue =>
                /\ serializer' = serializer
                /\ ctl'[Len(ctl')] = Call(Top.v.kids[Top.i])
          /\ SerializeKey /\ ~IsTextKey(Top.v.keys[Top.i]) =>
                /\ err' = "KeyNotString"
                /\ serializer' = serializer
          /\ pc = "running" /\ err = "KeyNotString" =>
                \/ pc' = "running" /\ err' = err /\ serializer' = serializer
                       /\ results' = results
                \/ pc' = "idle" /\ results' = Append(results, ErrResult("KeyNotString"))]_vars

(* A wrapped text key whose value was written, then a numeric key.         *)
C7_Witness ==
    \E k \in Finished :
        /\ inputs[k].kind = "map"
        /\ Len(inputs[k].keys) = 2
        /\ inputs[k].keys[1].kind = "newtype_struct"
        /\ inputs[k].keys[2].kind \in NumericKinds
        /\ results[k].res = "KeyNotString"
        /\ DOMAIN serializer.output = {"$.m"}

(* Call k flattens the record whose fields are the inputs of the calls     *)
(* before it.                                                              *)
NestedOf(k) ==
    /\ k >= 2
    /\ inputs[k].kind = "struct"
    /\ Len(inputs[k].kids) = k - 1
    /\ \A j \in 1..k - 1 : inputs[j] = inputs[k].kids[j]

(* Path p with its leading "$" replaced by "$.f".                          *)
Reprefix(p, f) == "$." \o f \o SubSeq(p, 2, Len(p))

C8_Entries(k) ==
    UNION {{<<Reprefix(p, inputs[k].keys[j].s), results[j].map[p]>> :
               p \in DOMAIN results[j].map} : j \in 1..k - 1}

(***************************************************************************)
(* C8: nesting law.  When V flattens at top level to M, V as field f of an *)
(* outer record yields exactly the entries of M with the leading "$" of    *)
(* every path replaced by "$.f", as many as M has, and the outer result is *)
(* the union of these maps over the fields.                                *)
(***************************************************************************)
C8_NestingLaw ==
    \A k \in Finished :
        (NestedOf(k) /\ \A j \in 1..k - 1 : results[j].res = "Ok") =>
            /\ \A j \in 1..k - 1 : \A p \in DOMAIN results[j].map : SubSeq(p, 1, 1) = "$"
            /\ results[k] = OkResult(FromEntries(C8_Entries(k)))
            /\ \A j \in 1..k - 1 :
                  Cardinality({p \in DOMAIN results[k].map :
                                  \E q \in DOMAIN results[j].map :
                                      p = Reprefix(q, inputs[k].keys[j].s)})
                      = Cardinality(DOMAIN results[j].map)

(* test_nested: the record of test_struct as field a, Struct{a: 1} as b.   *)
C8_Witness ==
    /\ Len(results) = 3
    /\ NestedOf(3)
    /\ inputs[1] = TestRecord
    /\ inputs[2] = StructVariant(<<U1>>)
    /\ results[3].res = "Ok"
    /\ Cardinality(DOMAIN results[3].map) = 5

IsScalarSeq(v) == v.kind \in {"seq", "tuple", "tuple_struct"} /\ AllNumeric(v.kids)

IsFlatRecord(v) ==
    /\ v.kind = "struct"
    /\ \A i \in 1..Len(v.kids) : v.kids[i].kind \in NumericKinds \/ IsScalarSeq(v.kids[i])

(* The scalars of a flat record: <<i, 0>> for scalar field i, <<i, j>> for *)
(* element j (from 1) of sequence field i.                                 *)
C9_Scalars(v) ==
    {<<i, 0>> : i \in {i \in 1..Len(v.kids) : v.kids[i].kind \in NumericKinds}}
        \cup UNION {{<<i, j>> : j \in 1..Len(v.kids[i].kids)} :
                       i \in {i \in 1..Len(v.kids) : IsScalarSeq(v.kids[i])}}

C9_Path(v, x) ==
    IF x[2] = 0
      THEN "$." \o v.keys[x[1]].s
      ELSE "$." \o v.keys[x[1]].s \o "[" \o ToString(x[2] - 1) \o "]"

C9_Value(v, x) ==
    IF x[2] = 0 THEN ScalarValue(v.kids[x[1]]) ELSE ScalarValue(v.kids[x[1]].kids[x[2]])

(***************************************************************************)
(* C9: a top-level record whose fields are numeric scalars or sequences of *)
(* numeric scalars yields exactly one entry per scalar, "$.<field>" or     *)
(* "$.<field>[i]" with i from 0, holding the scalar as a double; also for  *)
(* a sequence field that follows an earlier sequence field.                *)
(***************************************************************************)
C9_FlatRecord ==
    \A k \in Finished :
        IsFlatRecord(inputs[k]) =>
            /\ results[k].res = "Ok"
            /\ Cardinality(DOMAIN results[k].map) = Cardinality(C9_Scalars(inputs[k]))
            /\ \A x \in C9_Scalars(inputs[k]) :
                  /\ C9_Path(inputs[k], x) \in DOMAIN results[k].map
                  /\ results[k].map[C9_Path(inputs[k], x)] = C9_Value(inputs[k], x)

C9_Witness ==
    \E k \in Finished :
        /\ IsFlatRecord(inputs[k])
        /\ Len(inputs[k].kids) = 2
        /\ IsScalarSeq(inputs[k].kids[1]) /\ Len(inputs[k].kids[1].kids) = 2
        /\ IsScalarSeq(inputs[k].kids[2]) /\ Len(inputs[k].kids[2].kids) = 2
        /\ results[k].res = "Ok"
        /\ "$.b[1]" \in DOMAIN results[k].map

(* The two calls flatten a value and Some of it at the same position.      *)
SomePair(c, v) == inputs = <<Place(c, v), Place(c, Some(v))>>

(***************************************************************************)
(* C10: an absent optional, a unit and a unit struct each write NaN at the *)
(* current path and change nothing else; a present optional recurses into  *)
(* the wrapped value at the same path, pushing nothing, so Some(v) at a    *)
(* position flattens to exactly what v at that position flattens to.       *)
(***************************************************************************)
C10_OptionalsAndUnits ==
    /\ []((Len(results) = 2 /\ \E c \in Contexts : \E v \in NestArgs : SomePair(c, v)) =>
            results[2] = results[1])
    /\ [][/\ SerializeUnit =>
                /\ err' = "None"
                /\ serializer' =
                      [serializer EXCEPT !.output = Put(@, TopPath(serializer), NaN)]
          /\ SerializeSome =>
                /\ serializer' = serializer
                /\ ctl' = Append(Front(ctl), Call(Top.v.kids[1]))]_vars

(* Some(None) as the second field of a record, next to a numeric field.    *)
C10_Witness ==
    /\ Len(results) = 2
    /\ SomePair("field", Leaf("none", 0))
    /\ results[2] = OkResult(FromEntries({<<"$.a", F64(1)>>, <<"$.b", NaN>>}))

(***************************************************************************)
(* C11: strict fail-fast.  Once a handler has returned an error, no later  *)
(* step of the traversal writes to the output map (or changes the          *)
(* serializer at all), no further node is visited (the call stack only     *)
(* unwinds), and to_hashmap returns that first error and no map.           *)
(***************************************************************************)
C11_FailFast ==
    /\ [](\A k \in Finished : results[k].res # "Ok" => results[k].map = EmptyMap)
    /\ [][(pc = "running" /\ err \in Errors) =>
             /\ serializer' = serializer
             /\ \/ /\ pc' = "running"
                   /\ err' = err
                   /\ ctl # <<>>
                   /\ ctl' = Front(ctl)
                   /\ results' = results
                \/ /\ pc' = "idle"
                   /\ ctl = <<>>
                   /\ results' = Append(results, ErrResult(err))]_vars

(* A sequence whose first element is text and whose second is numeric has  *)
(* returned Unsupported with nothing written.                              *)
C11_Witness ==
    /\ pc = "idle"
    /\ Len(results) = 1
    /\ inputs[1].kind = "seq"
    /\ Len(inputs[1].kids) = 2
    /\ inputs[1].kids[1].kind \in TextKinds
    /\ inputs[1].kids[2].kind \in NumericKinds
    /\ results[1] = ErrResult("Unsupported")
    /\ serializer.output = EmptyMap

(* The f64 the handler of a value writes before anything else, for the     *)
(* kinds that write.                                                       *)
WritingKinds ==
    NumericKinds \cup UnitKinds
        \cup {"unit_variant", "newtype_variant", "tuple_variant", "struct_variant"}

Written(v) == IF v.kind \in UnitKinds THEN NaN ELSE F64(v.n)

(***************************************************************************)
(* C12: writes to the output map are additive.  During a traversal the key *)
(* set never shrinks; a step that writes changes only the entry at the     *)
(* path on top of the stack, which then holds the value just written,      *)
(* whatever it held before; every other step leaves the map as it is.      *)
(***************************************************************************)
C12_AdditiveWrites ==
    [][(pc = "running" /\ pc' = "running") =>
          /\ DOMAIN serializer.output \subseteq DOMAIN serializer'.output
          /\ IF Calling(WritingKinds)
               THEN /\ serializer'.output =
                          Put(serializer.output, TopPath(serializer), Written(Top.v))
                    /\ \A p \in DOMAIN serializer.output \ {TopPath(serializer)} :
                          serializer'.output[p] = serializer.output[p]
               ELSE serializer'.output = serializer.output]_vars

(* A tuple variant as first element wrote its discriminant 2 at "$[0]";    *)
(* the shared counter then sent the second element, 1, to "$[0]" as well.  *)
C12_Witness ==
    /\ Len(results) = 1
    /\ inputs[1] = SeqOf(<<TupleVariant(<<U1>>), U1>>)
    /\ results[1].res = "Ok"
    /\ DOMAIN results[1].map = {"$[0]", "$[0][1]"}
    /\ results[1].map["$[0]"] = F64(1)

(***************************************************************************)
(* C13: in every traversal whose dispatcher keeps to begin / element / end *)
(* (and key, then value, for map entries) the path stack is non-empty at   *)
(* every write: the assertion of insert never fails, no internal error     *)
(* arises, and the root marker "$" stays at the bottom of the stack.       *)
(***************************************************************************)
C13_StackNeverEmpty ==
    /\ pc # "panicked"
    /\ err \in {"None"} \cup Errors
    /\ pc = "running" =>
          /\ ~insert_panics(serializer)
          /\ serializer.pos[1] = "$"
    /\ \A k \in Finished : results[k].res \in {"Ok"} \cup Errors

(* A map of two entries, each a key and then a value, has been flattened.  *)
C13_Witness ==
    /\ pc = "running"
    /\ ctl = <<>>
    /\ err = "None"
    /\ inputs[cur].kind = "map"
    /\ Len(inputs[cur].kids) = 2
    /\ Cardinality(DOMAIN serializer.output) >= 2
    /\ serializer.pos = <<"$">>

(***************************************************************************)
(* C14: when a traversal has completed successfully the serializer is back *)
(* at its initial shape: the path stack is exactly <<"$">> and the         *)
(* sequence index counter is 0.                                            *)
(***************************************************************************)
C14_BackToInitialShape ==
    (pc = "running" /\ ctl = <<>> /\ err = "None") =>
        /\ serializer.pos = new("$").pos
        /\ serializer.counter = new("$").counter

(* A struct variant passed to to_hashmap itself, with a field that is a    *)
(* sequence-like compound of two elements, has been flattened.             *)
C14_Witness ==
    /\ pc = "running"
    /\ ctl = <<>>
    /\ err = "None"
    /\ inputs[cur].kind = "struct_variant"
    /\ \E i \in 1..Len(inputs[cur].kids) :
          /\ inputs[cur].kids[i].kind \in SeqLikeKinds
          /\ Len(inputs[cur].kids[i].kids) = 2
    /\ Cardinality(DOMAIN serializer.output) >= 3

====
